---------------------------- MODULE Spec2Model ----------------------------
(***************************************************************************)
(* A model of src/getJobDetails.py: the reconciliation of an expected      *)
(* batch-job schedule (CSV) against the execution rows of a job store.     *)
(*                                                                         *)
(* A Python str is a sequence of one-character strings, so that split,    *)
(* int and capitalize work on it as they do in Python.  TLA+ strings name  *)
(* positions of the run, exceptions and the kinds of diagnostic lines.     *)
(* A Python call that may raise returns a record whose err field names     *)
(* the exception ("None" when it returned normally).                       *)
(***************************************************************************)
EXTENDS Integers, Sequences, FiniteSets, TLC

VARIABLES
    \* ---- a run of the program (specification Spec) ----
    pc,                 \* position of the run in the module / prepare_summary
    entry,              \* "__main__" (python getJobDetails.py) or "import"
    env,                \* os.environ after load_dotenv(): parameter -> value
    spath, spath2,      \* the module globals holding the schedule paths
    today,              \* datetime.date.today(), as a proleptic ordinal
    weekday_str,        \* the local of prepare_summary, line 122
    db_pass_details,    \* db_yesterday_details / db_today_details of the pass
    db_batch,           \* db_batch_yesterday / db_batch_today of the pass
    csv_pass_data,      \* csv_data / csv_data_today of the pass
    jobs,               \* the category lists of the pass (lines 139-146)
    result,             \* the accumulator of prepare_summary
    last_call,          \* what the latest check_job_status call returned
    stdout_total,       \* what line 187 printed (<<>> before it)
    error,              \* the uncaught exception that ended the run
    exit_status,        \* the process exit status once pc = "exited"
    connections,        \* number of psycopg2.connect calls made
    queries,            \* number of cur.execute calls made
    files_opened,       \* number of open(filepath) calls made
    checks_evaluated,   \* iterations of line 97 begun in the current pass
    calls_made,         \* number of check_job_status calls that returned
    opened,             \* <<the file open() found>> in the current pass
    \* ---- one call of check_job_status (specification SpecCheck) ----
    in_job_details, in_db_details, out_check,
    in_db_other, out_other,
    \* ---- one call of process_stage_details (specification SpecStage) ----
    in_stage_details, out_stage,
    \* ---- the two queries over the store (specification SpecQuery) ----
    table, out_yesterday, out_today

runVars   == <<pc, entry, env, spath, spath2, today, weekday_str, db_pass_details,
               db_batch, csv_pass_data, jobs, result, last_call, stdout_total,
               error, exit_status, connections, queries, files_opened,
               checks_evaluated, calls_made, opened>>
checkVars == <<in_job_details, in_db_details, out_check,
               in_db_other, out_other>>
stageVars == <<in_stage_details, out_stage>>
queryVars == <<table, out_yesterday, out_today>>
vars      == <<runVars, checkVars, stageVars, queryVars>>

-----------------------------------------------------------------------------
(* Bounds of the model.                                                    *)

MaxChecks  == 2     \* longest job_details list given to check_job_status
MaxRecords == 2     \* longest db_details list given to check_job_status
MaxStage   == 2     \* longest stage_details list
MaxValLen  == 3     \* longest comma-separated values cell, in characters
MaxExec    == 2     \* most execution rows in the store
MaxRows    == 1     \* most data rows in a schedule file

SeqsUpTo(S, n) == UNION {[1..k -> S] : k \in 0..n}

RECURSIVE SumSeq(_)
SumSeq(s) == IF s = <<>> THEN 0 ELSE Head(s) + SumSeq(Tail(s))

Ok(v)    == [err |-> "None", val |-> v]
Raise(e) == [err |-> e, val |-> 0]

-----------------------------------------------------------------------------
(* str operations the program uses.                                        *)

Digits == <<"0", "1", "2", "3", "4", "5", "6", "7", "8", "9">>
IsDigit(c) == \E i \in 1..10 : Digits[i] = c
DigitVal(c) == (CHOOSE i \in 1..10 : Digits[i] = c) - 1
\* The characters int() takes off both ends of its argument: the ASCII
\* white space (space, tab, line feed, vertical tab, form feed, carriage
\* return) and, of the other characters a string of a module can hold
\* (code points up to U+00FF), next line U+0085 and no-break space U+00A0.
\* The separators U+001C..U+001F are not taken off.
IsSpace(c) == c \in {" ", "\t", "\n", "", "\f", "\r", "", " "}

RECURSIVE LStrip(_)
LStrip(s) == IF s # <<>> /\ IsSpace(Head(s)) THEN LStrip(Tail(s)) ELSE s

RECURSIVE RStrip(_)
RStrip(s) ==
    IF s # <<>> /\ IsSpace(s[Len(s)]) THEN RStrip(SubSeq(s, 1, Len(s) - 1))
    ELSE s

\* The digit part of a decimal literal: digits, single underscores between.
ValidDigits(d) ==
    /\ d # <<>>
    /\ \A i \in 1..Len(d) :
          \/ IsDigit(d[i])
          \/ /\ d[i] = "_"
             /\ 1 < i /\ i < Len(d)
             /\ IsDigit(d[i - 1]) /\ IsDigit(d[i + 1])

RECURSIVE DigitsValue(_, _)
DigitsValue(d, acc) ==
    IF d = <<>> THEN acc
    ELSE IF Head(d) = "_" THEN DigitsValue(Tail(d), acc)
    ELSE DigitsValue(Tail(d), 10 * acc + DigitVal(Head(d)))

\* int(s) for a str s (base 10): the value, or ValueError.  The text is
\* stripped, an optional sign is taken off, the rest are the digits.
int_digits(sign, d) ==
    IF ~ValidDigits(d) THEN Raise("ValueError")
    ELSE IF sign = "-" THEN Ok(0 - DigitsValue(d, 0))
    ELSE Ok(DigitsValue(d, 0))

int_stripped(t) ==
    IF t # <<>> /\ Head(t) \in {"+", "-"} THEN int_digits(Head(t), Tail(t))
    ELSE int_digits("+", t)

int(s) == int_stripped(RStrip(LStrip(s)))

\* s.split(","): the pieces between the commas, empty pieces included.
RECURSIVE SplitFrom(_, _)
SplitFrom(s, piece) ==
    IF s = <<>> THEN <<piece>>
    ELSE IF Head(s) = "," THEN <<piece>> \o SplitFrom(Tail(s), <<>>)
    ELSE SplitFrom(Tail(s), Append(piece, Head(s)))

split(s) == SplitFrom(s, <<>>)

UpperLetters == <<"A", "B", "C", "D", "E", "F", "G", "H", "I", "J", "K", "L", "M",
                  "N", "O", "P", "Q", "R", "S", "T", "U", "V", "W", "X", "Y", "Z">>
LowerLetters == <<"a", "b", "c", "d", "e", "f", "g", "h", "i", "j", "k", "l", "m",
                  "n", "o", "p", "q", "r", "s", "t", "u", "v", "w", "x", "y", "z">>
ToLower(c) ==
    IF \E i \in 1..26 : UpperLetters[i] = c
    THEN LowerLetters[CHOOSE i \in 1..26 : UpperLetters[i] = c] ELSE c
ToUpper(c) ==
    IF \E i \in 1..26 : LowerLetters[i] = c
    THEN UpperLetters[CHOOSE i \in 1..26 : LowerLetters[i] = c] ELSE c

\* s.capitalize(): first character upper-cased, the rest lower-cased.
capitalize(s) ==
    [i \in 1..Len(s) |-> IF i = 1 THEN ToUpper(s[i]) ELSE ToLower(s[i])]

\* The str literals of the program and the job names of the model.
YES       == <<"Y", "E", "S">>
NO        == <<"N", "O">>
COMPLETED == <<"C", "O", "M", "P", "L", "E", "T", "E", "D">>
FAILED    == <<"F", "A", "I", "L", "E", "D">>
JobA      == <<"A">>
JobB      == <<"B">>
JobZ      == <<"Z">>

-----------------------------------------------------------------------------
(* class WeekDay(IntEnum) and the dates of prepare_summary.                *)

MONDAY    == 0
TUESDAY   == 1
WEDNESDAY == 2
THURSDAY  == 3
FRIDAY    == 4
SATURDAY  == 5
SUNDAY    == 6

\* WeekDay(n).name
WeekDayName(n) ==
    CASE n = MONDAY    -> <<"M", "O", "N", "D", "A", "Y">>
      [] n = TUESDAY   -> <<"T", "U", "E", "S", "D", "A", "Y">>
      [] n = WEDNESDAY -> <<"W", "E", "D", "N", "E", "S", "D", "A", "Y">>
      [] n = THURSDAY  -> <<"T", "H", "U", "R", "S", "D", "A", "Y">>
      [] n = FRIDAY    -> <<"F", "R", "I", "D", "A", "Y">>
      [] n = SATURDAY  -> <<"S", "A", "T", "U", "R", "D", "A", "Y">>
      [] n = SUNDAY    -> <<"S", "U", "N", "D", "A", "Y">>

\* date.weekday() of a proleptic Gregorian ordinal (ordinal 1 is a Monday).
weekday(ordinal) == (ordinal + 6) % 7

\* lines 120-122: the label of yesterday's weekday.
yesterday_label(today_ordinal) ==
    capitalize(WeekDayName(weekday(today_ordinal - 1)))

-----------------------------------------------------------------------------
(* process_stage_details, lines 68-82.  An entry is <<job_name, values>>.  *)

pairs_of(job_name, parts) ==
    [i \in 1..Len(parts) |-> <<job_name, parts[i]>>]

\* expand_row with a slip: a value that already occurred is dropped.
first_occurrences(parts) ==
    SelectSeq([i \in 1..Len(parts) |->
                  IF \E j \in 1..(i - 1) : parts[j] = parts[i]
                  THEN <<"dup">> ELSE <<"new", parts[i]>>],
              LAMBDA p : p[1] = "new")
expand_row_dedup(row) ==
    [i \in 1..Len(first_occurrences(split(row[2]))) |->
        <<row[1], first_occurrences(split(row[2]))[i][2]>>]

\* lines 80-81 for one row
expand_row(row) == pairs_of(row[1], split(row[2]))

RECURSIVE process_stage_details(_)
process_stage_details(stage_details) ==
    IF stage_details = <<>> THEN <<>>
    ELSE expand_row(Head(stage_details))
            \o process_stage_details(Tail(stage_details))


-----------------------------------------------------------------------------
(* check_job_status, lines 84-113.  A check is <<job_name, condition>>, an *)
(* execution record <<job_name, status, execution_count>>.  The count is   *)
(* the integer that the SQL count yields, so int(data[2]) is data[2].           *)

\* matching_db with a slip: the filter on the job name is lost.
matching_db_all(job_name, db_details) == db_details

\* line 98: the records of the job, in the order of db_details.
matching_db(job_name, db_details) ==
    SelectSeq(db_details, LAMBDA data : data[1] = job_name)

\* lines 105-109: expected is int(condition), found is int(data[2]).
compare_count(expected, found) ==
    IF expected.err # "None"
    THEN [err |-> expected.err, inc |-> 0, msg |-> "none"]
    ELSE IF expected.val = found
    THEN [err |-> "None", inc |-> 0, msg |-> "completed successfully"]
    ELSE [err |-> "None", inc |-> 1, msg |-> "count mismatch"]

\* check_record with a slip: a COMPLETED record passes whatever its count.
check_record_any_completed(condition, data) ==
    IF data[2] = COMPLETED
    THEN [err |-> "None", inc |-> 0, msg |-> "completed successfully"]
    ELSE [err |-> "None", inc |-> 1, msg |-> "did not complete"]

\* lines 104-112, one record of the job: the exception int() raises, or
\* what is added to result and what is printed.
check_record(condition, data) ==
    IF data[2] = COMPLETED THEN compare_count(int(condition), data[3])
    ELSE [err |-> "None", inc |-> 1, msg |-> "did not complete"]

\* The call's state [err, val (result), out (lines printed), evaluated]
\* after the verdict v on a record of job_name.
after_record(acc, v, job_name) ==
    IF v.err # "None" THEN [acc EXCEPT !.err = v.err]
    ELSE [acc EXCEPT !.val = @ + v.inc,
                     !.out = Append(@, <<v.msg, job_name>>)]

\* lines 103-112: the loop over the records of one job.
RECURSIVE check_records(_, _, _, _)
check_records(job_name, condition, records, acc) ==
    IF records = <<>> \/ acc.err # "None" THEN acc
    ELSE check_records(job_name, condition, Tail(records),
             after_record(acc, check_record(condition, Head(records)), job_name))

\* evaluated counts the checks whose iteration ran to its end.
end_of_iteration(acc) ==
    IF acc.err # "None" THEN acc ELSE [acc EXCEPT !.evaluated = @ + 1]

\* lines 98-112: one check, matching being its matching_db.
check_one(job_name, condition, matching, acc) ==
    IF matching = <<>>
    THEN [acc EXCEPT !.val = @ + 1,
                     !.out = Append(@, <<"not launched", job_name>>)]
    ELSE check_records(job_name, condition, matching, acc)

\* lines 97-112: the loop over the checks.
RECURSIVE check_jobs(_, _, _, _)
check_jobs(job_details, db_details, date_match, acc) ==
    IF job_details = <<>> \/ acc.err # "None" THEN acc
    ELSE check_jobs(Tail(job_details), db_details, date_match,
             end_of_iteration(
                 check_one(Head(job_details)[1], Head(job_details)[2],
                           matching_db(Head(job_details)[1], db_details), acc)))

\* The call: val is the returned count when err = "None"; when the call
\* raised, val and out are what had been counted and printed until then.
check_job_status(job_details, db_details, date_match) ==
    check_jobs(job_details, db_details, date_match,
               [err |-> "None", val |-> 0, out |-> <<>>, evaluated |-> 0])

-----------------------------------------------------------------------------
(* The store and the two queries of prepare_summary.  An execution row is  *)
(* <<job_name, status, create_time>>, create_time in hours from            *)
(* current_date 00:00 (negative: before today).                            *)

SixHours == 6       \* interval '6 hours', line 161

\* line 129: be.create_time::date = current_date - 1
in_yesterday_window(create_time) == create_time \div 24 = 0 - 1

\* in_today_window with a slip: the upper end left out.
in_today_window_half_open(create_time) ==
    0 <= create_time /\ create_time < SixHours

\* line 161: be.create_time BETWEEN current_date AND current_date + 6 hours
in_today_window(create_time) == 0 <= create_time /\ create_time <= SixHours

\* GROUP BY bji.job_name, be.status with its count: one record per pair,
\* here in the order in which the pairs first occur in the rows.
count_row(acc, r) ==
    IF \E i \in 1..Len(acc) : acc[i][1] = r[1] /\ acc[i][2] = r[2]
    THEN [i \in 1..Len(acc) |->
             IF acc[i][1] = r[1] /\ acc[i][2] = r[2]
             THEN <<acc[i][1], acc[i][2], acc[i][3] + 1>> ELSE acc[i]]
    ELSE Append(acc, <<r[1], r[2], 1>>)

RECURSIVE group_by(_, _)
group_by(rows, acc) ==
    IF rows = <<>> THEN acc
    ELSE group_by(Tail(rows), count_row(acc, Head(rows)))

\* lines 125-131
yesterday_db_query(rows) ==
    group_by(SelectSeq(rows, LAMBDA r : in_yesterday_window(r[3])), <<>>)

\* lines 157-163
today_db_query(rows) ==
    group_by(SelectSeq(rows, LAMBDA r : in_today_window(r[3])), <<>>)

\* line 33: all([dbname, username, pwd, hostname, portnumber]); a
\* parameter that is not set reads as None, which is falsy like "".
Params == {"DB_NAME", "DB_USER", "DB_PASSWORD", "DB_HOST", "DB_PORT"}
None   == <<"None">>        \* python's None: no str is this sequence
\* credentials_set with a slip: any() where the code has all().
credentials_set_any(environ) ==
    \E p \in Params : environ[p] # None /\ environ[p] # <<>>

credentials_set(environ) ==
    \A p \in Params : environ[p] # None /\ environ[p] # <<>>

\* lines 27-36: the exception get_db_connection raises, "None" if it
\* returns the connection; server_up is whether psycopg2.connect succeeds.
get_db_connection(environ, server_up) ==
    IF ~credentials_set(environ) THEN "ValueError"
    ELSE IF ~server_up THEN "OperationalError"
    ELSE "None"

-----------------------------------------------------------------------------
(* load_csv_data, lines 53-66, and the category lists, lines 139-146.  A   *)
(* file is [exists, lines]; a line is the tuple of its cells.  Cells 1, 3, *)
(* 4 and 6 (python's row[1], row[3], row[4], row[6]) are the flags.        *)

load_csv_data(file) ==
    IF ~file.exists THEN [err |-> "FileNotFoundError", val |-> <<>>]
    ELSE IF file.lines = <<>> THEN [err |-> "StopIteration", val |-> <<>>]
    ELSE [err |-> "None", val |-> Tail(file.lines)]

\* row[i] of python (0-based) exists
has_cell(row, i) == i < Len(row)
cell(row, i) == row[i + 1]

\* [(row[0], row[v]) for row in csv_data if row[f] == 'YES'] raises
\* IndexError on a row without cell f, or with the flag set and no cell v.
select_raises(csv_data, f, v) ==
    \E k \in 1..Len(csv_data) :
        \/ ~has_cell(csv_data[k], f)
        \/ cell(csv_data[k], f) = YES /\ ~has_cell(csv_data[k], v)

pair_of(row, v) == <<cell(row, 0), cell(row, v)>>

RECURSIVE select_pairs(_, _, _)
select_pairs(csv_data, f, v) ==
    IF csv_data = <<>> THEN <<>>
    ELSE IF cell(Head(csv_data), f) = YES
    THEN <<pair_of(Head(csv_data), v)>> \o select_pairs(Tail(csv_data), f, v)
    ELSE select_pairs(Tail(csv_data), f, v)

first_of(pairs) == [k \in 1..Len(pairs) |-> pairs[k][1]]

\* lines 139-146 in order; the first comprehension that raises ends them.
NoJobs == [hourly_jobs |-> <<>>, daily_jobs |-> <<>>,
           stage_day_jobs |-> <<>>, stage_week_jobs |-> <<>>,
           specific_day_jobs |-> <<>>, specific_week_jobs |-> <<>>]

categories(hourly, daily, stage_day, stage_week) ==
    [hourly_jobs        |-> hourly,
     daily_jobs         |-> daily,
     stage_day_jobs     |-> stage_day,
     stage_week_jobs    |-> stage_week,
     specific_day_jobs  |-> process_stage_details(stage_day),
     specific_week_jobs |-> process_stage_details(stage_week)]

\* categorize with a slip: short rows are padded with empty cells and a
\* missing cell no longer raises.
pad_row(row) == row \o [i \in 1..(8 - Len(row)) |-> <<>>]
pad_rows(csv_data) == [k \in 1..Len(csv_data) |-> pad_row(csv_data[k])]
categorize_padded(csv_data) ==
    [err |-> "None",
     val |-> categories(select_pairs(pad_rows(csv_data), 1, 2),
                        first_of(select_pairs(pad_rows(csv_data), 3, 0)),
                        select_pairs(pad_rows(csv_data), 4, 5),
                        select_pairs(pad_rows(csv_data), 6, 7))]

categorize(csv_data) ==
    IF \/ select_raises(csv_data, 1, 2)
       \/ select_raises(csv_data, 3, 0)
       \/ select_raises(csv_data, 4, 5)
       \/ select_raises(csv_data, 6, 7)
    THEN [err |-> "IndexError", val |-> NoJobs]
    ELSE [err |-> "None",
          val |-> categories(select_pairs(csv_data, 1, 2),
                             first_of(select_pairs(csv_data, 3, 0)),
                             select_pairs(csv_data, 4, 5),
                             select_pairs(csv_data, 6, 7))]

\* line 152 / 182: [(job, "") for job in daily_jobs]
daily_checks(daily_jobs) ==
    [k \in 1..Len(daily_jobs) |-> <<daily_jobs[k], <<>>>>]

\* line 153 / 183: [(job, time_day) for job, time_day in specific_day_jobs]
day_checks(specific_day_jobs) ==
    [k \in 1..Len(specific_day_jobs) |->
        <<specific_day_jobs[k][1], specific_day_jobs[k][2]>>]

\* line 154 / 184: [(job, weekday_str) for job, weekday_str in ...]: the
\* comprehension's own weekday_str hides the local of line 122, so each
\* check carries the value of the schedule and the label is not read.
week_checks(specific_week_jobs, label) ==
    [k \in 1..Len(specific_week_jobs) |->
        <<specific_week_jobs[k][1], specific_week_jobs[k][2]>>]


-----------------------------------------------------------------------------
(* The values the inputs are drawn from.                                   *)

Monday   == capitalize(WeekDayName(MONDAY))
Statuses == {COMPLETED, FAILED}

\* conditions: "", "1", "02", "\f1" (a form feed before the digit) and "Monday"
Conditions == {<<>>, <<"1">>, <<"0", "2">>, <<"\f", "1">>, Monday}
\* A and B are scheduled jobs, Z is a job no schedule names.
CheckLists  == SeqsUpTo({JobA, JobB} \X Conditions, MaxChecks)
RecordLists == SeqsUpTo({JobA, JobZ} \X Statuses \X (1..2), MaxRecords)

\* values cells over "1" and ","
ValueCells == SeqsUpTo({"1", ","}, MaxValLen)
StageLists == SeqsUpTo({JobA, JobB} \X ValueCells, MaxStage)

\* create_time samples: the day before yesterday, yesterday's first and
\* last hour, today 00:00, 03:00, exactly 06:00 and 07:00.
SampleTimes == {0 - 25, 0 - 24, 0 - 1, 0, 3, SixHours, SixHours + 1}
Tables == SeqsUpTo({JobA, JobB} \X Statuses \X SampleTimes, MaxExec)

NotCalled == [err |-> "NotCalled", val |-> 0, out |-> <<>>, evaluated |-> 0]
NotRun    == [done |-> FALSE, val |-> <<>>]
Returned(v) == [done |-> TRUE, val |-> v]

RunIdle ==
    /\ pc = "idle" /\ entry = "none" /\ env = <<>> /\ spath = <<>>
    /\ spath2 = <<>> /\ today = 0 /\ weekday_str = <<>>
    /\ db_pass_details = <<>> /\ db_batch = <<>> /\ csv_pass_data = <<>>
    /\ jobs = NoJobs /\ result = 0 /\ last_call = NotCalled
    /\ stdout_total = <<>> /\ error = "None" /\ exit_status = 0
    /\ connections = 0 /\ queries = 0 /\ files_opened = 0
    /\ checks_evaluated = 0 /\ calls_made = 0 /\ opened = <<>>
CheckIdle ==
    /\ in_job_details = <<>> /\ in_db_details = <<>> /\ out_check = NotCalled
    /\ in_db_other = <<>> /\ out_other = NotCalled
StageIdle == in_stage_details = <<>> /\ out_stage = NotRun
QueryIdle == table = <<>> /\ out_yesterday = NotRun /\ out_today = NotRun

-----------------------------------------------------------------------------
(* SpecCheck: check_job_status applied to every list of checks and every   *)
(* list of execution records within the bounds, and applied again to the   *)
(* same checks with the records of unscheduled jobs taken out.             *)

scheduled_records(job_details, db_details) ==
    SelectSeq(db_details,
              LAMBDA data : \E k \in 1..Len(job_details) :
                                job_details[k][1] = data[1])

CheckInit ==
    /\ in_job_details \in CheckLists
    /\ in_db_details \in RecordLists
    /\ out_check = NotCalled
    /\ in_db_other = <<>>
    /\ out_other = NotCalled
    /\ RunIdle /\ StageIdle /\ QueryIdle

CallCheckJobStatus ==
    /\ out_check = NotCalled
    /\ \E date_match \in {"Yesterday", "Today"} :
          out_check' = check_job_status(in_job_details, in_db_details, date_match)
    /\ UNCHANGED <<in_job_details, in_db_details, in_db_other, out_other>>
    /\ UNCHANGED <<runVars, stageVars, queryVars>>

CallOnScheduledRecords ==
    /\ out_other = NotCalled
    /\ in_db_other' = scheduled_records(in_job_details, in_db_details)
    /\ out_other' = check_job_status(in_job_details, in_db_other', "Yesterday")
    /\ UNCHANGED <<in_job_details, in_db_details, out_check>>
    /\ UNCHANGED <<runVars, stageVars, queryVars>>

CheckNext == CallCheckJobStatus \/ CallOnScheduledRecords
SpecCheck == CheckInit /\ [][CheckNext]_vars

-----------------------------------------------------------------------------
(* SpecStage: process_stage_details applied to every list of entries.      *)

StageInit ==
    /\ in_stage_details \in StageLists
    /\ out_stage = NotRun
    /\ RunIdle /\ CheckIdle /\ QueryIdle

CallProcessStageDetails ==
    /\ ~out_stage.done
    /\ out_stage' = Returned(process_stage_details(in_stage_details))
    /\ UNCHANGED <<in_stage_details, runVars, checkVars, queryVars>>

StageNext == CallProcessStageDetails
SpecStage == StageInit /\ [][StageNext]_vars

-----------------------------------------------------------------------------
(* SpecQuery: the two queries run on every store within the bounds.        *)

QueryInit ==
    /\ table \in Tables
    /\ out_yesterday = NotRun
    /\ out_today = NotRun
    /\ RunIdle /\ CheckIdle /\ StageIdle

RunYesterdayQuery ==
    /\ ~out_yesterday.done
    /\ out_yesterday' = Returned(yesterday_db_query(table))
    /\ UNCHANGED <<table, out_today, runVars, checkVars, stageVars>>

RunTodayQuery ==
    /\ ~out_today.done
    /\ out_today' = Returned(today_db_query(table))
    /\ UNCHANGED <<table, out_yesterday, runVars, checkVars, stageVars>>

QueryNext == RunYesterdayQuery \/ RunTodayQuery
SpecQuery == QueryInit /\ [][QueryNext]_vars


-----------------------------------------------------------------------------
(* Spec: a run of the program.  The module is run as a script (line 191    *)
(* binds spath and nothing binds spath2) or imported by a caller that      *)
(* binds both globals and calls prepare_summary.  The store and the files  *)
(* are read when the run reaches them.  The diagnostic lines of the checks *)
(* are in last_call.out; stdout_total is the line that line 187 prints.    *)

Unbound == <<"unbound">>    \* a global no assignment has bound

\* today: Tuesday 2026-10-27 and Thursday 2026-10-29, as ordinals
SampleDates == {739916, 739918}

Header == <<<<"j", "o", "b">>, <<"h">>, <<"n">>, <<"d">>, <<"s">>, <<"v">>,
            <<"w">>, <<"v">>>>

\* data rows: [job_name, hourly flag, count, daily flag, specific-day
\* flag, days, specific-weekday flag, weekdays]
RowHourly == <<JobA, YES, <<"1">>, NO, NO, <<>>, NO, <<>>>>
RowDaily  == <<JobA, NO, <<>>, YES, NO, <<>>, NO, <<>>>>
RowDay    == <<JobB, NO, <<>>, NO, YES, <<"1", ",", "2">>, NO, <<>>>>
RowWeek   == <<JobB, NO, <<>>, NO, NO, <<>>, YES, Monday>>
RowAll    == <<JobA, YES, <<"1">>, YES, YES, <<"1">>, YES, Monday>>
Row7No    == <<JobA, YES, <<"1">>, NO, NO, <<>>, NO>>
Row7Yes   == <<JobB, NO, <<>>, NO, NO, <<>>, YES>>
Row3      == <<JobA, YES, <<"1">>>>
RowBlank  == <<>>
ScheduleRows == {RowHourly, RowDaily, RowDay, RowWeek, RowAll,
                 Row7No, Row7Yes, Row3, RowBlank}

\* what open(filepath) can find: no file, an empty file, or a header
\* line followed by data rows
Files ==
    {[exists |-> FALSE, lines |-> <<>>], [exists |-> TRUE, lines |-> <<>>]}
    \cup {[exists |-> TRUE, lines |-> <<Header>> \o rows] :
             rows \in SeqsUpTo(ScheduleRows, MaxRows)}

inputVars == <<entry, env, spath2, today>>
passVars  == <<db_pass_details, db_batch, csv_pass_data, jobs, opened,
               checks_evaluated, last_call>>
ioVars    == <<connections, queries, files_opened>>
otherVars == <<checkVars, stageVars, queryVars>>

Init ==
    /\ entry \in {"__main__", "import"}
    /\ env \in [Params -> {None, <<>>, <<"x">>}]
    /\ today \in SampleDates
    /\ pc = IF entry = "__main__" THEN "line191" ELSE "line120"
    /\ spath = IF entry = "__main__" THEN Unbound ELSE <<"y">>
    /\ spath2 = IF entry = "__main__" THEN Unbound ELSE <<"t">>
    /\ weekday_str = <<>>
    /\ db_pass_details = <<>> /\ db_batch = <<>> /\ csv_pass_data = <<>>
    /\ jobs = NoJobs /\ result = 0 /\ last_call = NotCalled
    /\ stdout_total = <<>> /\ error = "None" /\ exit_status = 0
    /\ connections = 0 /\ queries = 0 /\ files_opened = 0
    /\ checks_evaluated = 0 /\ calls_made = 0 /\ opened = <<>>
    /\ CheckIdle /\ StageIdle /\ QueryIdle

\* An uncaught exception: the traceback, then exit status 1.
Halt(e) == pc' = "exited" /\ error' = e /\ exit_status' = 1

\* lines 191-196
Main ==
    /\ pc = "line191"
    /\ spath' = <<"b", "a", "t", "c", "h", ".", "c", "s", "v">>
    /\ pc' = "line120"
    /\ UNCHANGED <<otherVars, inputVars, passVars, ioVars, weekday_str, result,
                   stdout_total, error, exit_status, calls_made>>

\* lines 120-122
ComputeDates ==
    /\ pc = "line120"
    /\ weekday_str' = yesterday_label(today)
    /\ pc' = "line132"
    /\ UNCHANGED <<otherVars, inputVars, passVars, ioVars, spath, result, stdout_total,
                   error, exit_status, calls_made>>

\* what each query can return: its result on every store within the bounds
YesterdayResults == {yesterday_db_query(rows) : rows \in Tables}
TodayResults     == {today_db_query(rows) : rows \in Tables}

\* fetch_db_details(query), lines 38-51, and the line after the call
\* (133 / 165); results are the query's results on the stores the run
\* may find when the query executes.
Fetch(results, here, next) ==
    /\ pc = here
    /\ \E server_up \in BOOLEAN :
          \E conn \in {get_db_connection(env, server_up)} :
              /\ connections' = connections + (IF conn = "ValueError" THEN 0 ELSE 1)
              /\ queries' = queries + (IF conn = "None" THEN 1 ELSE 0)
              /\ IF conn # "None"
                 THEN Halt(conn) /\ UNCHANGED passVars
                 ELSE \/ Halt("DatabaseError") /\ UNCHANGED passVars
                      \/ \E fetched \in results :
                            /\ db_pass_details' = fetched
                            /\ db_batch' = first_of(db_pass_details')
                            /\ csv_pass_data' = <<>> /\ jobs' = NoJobs
                            /\ opened' = <<>> /\ checks_evaluated' = 0
                            /\ last_call' = NotCalled
                            /\ pc' = next
                            /\ UNCHANGED <<error, exit_status>>
    /\ UNCHANGED <<otherVars, inputVars, files_opened, spath, weekday_str, result,
                   stdout_total, calls_made>>

\* line 132
FetchYesterday == Fetch(YesterdayResults, "line132", "line136")
\* line 164
FetchToday == Fetch(TodayResults, "line164", "line168")

\* load_csv_data(path), line 136 / 168: reading an unbound global raises
\* NameError before the call.
Load(path, here, next) ==
    /\ pc = here
    /\ IF path = Unbound
       THEN Halt("NameError") /\ UNCHANGED <<files_opened, opened, csv_pass_data>>
       ELSE \E file \in Files :
               \E read \in {load_csv_data(file)} :
                   /\ files_opened' = files_opened + 1
                   /\ opened' = <<file>>
                   /\ IF read.err # "None"
                      THEN Halt(read.err) /\ UNCHANGED csv_pass_data
                      ELSE /\ csv_pass_data' = read.val
                           /\ pc' = next
                           /\ UNCHANGED <<error, exit_status>>
    /\ UNCHANGED <<otherVars, inputVars, connections, queries, spath, weekday_str,
                   db_pass_details, db_batch, jobs, checks_evaluated,
                   last_call, result, stdout_total, calls_made>>

LoadYesterday == Load(spath, "line136", "line139")
LoadToday == Load(spath2, "line168", "line171")

\* lines 139-146 / 171-178
Categorize(here, next) ==
    /\ pc = here
    /\ \E c \in {categorize(csv_pass_data)} :
           IF c.err # "None"
           THEN Halt(c.err) /\ UNCHANGED jobs
           ELSE jobs' = c.val /\ pc' = next /\ UNCHANGED <<error, exit_status>>
    /\ UNCHANGED <<otherVars, inputVars, ioVars, spath, weekday_str, db_pass_details,
                   db_batch, csv_pass_data, opened, checks_evaluated,
                   last_call, stdout_total, calls_made>>

\* lines 139-148
CategorizeYesterday ==
    Categorize("line139", "line151") /\ result' = 0
CategorizeToday ==
    Categorize("line171", "line181") /\ UNCHANGED result

\* result += check_job_status(checks, db details of the pass, date_match)
Check(checks, date_match, here, next) ==
    /\ pc = here
    /\ \E r \in {check_job_status(checks, db_pass_details, date_match)} :
           /\ last_call' = r
           /\ checks_evaluated' =
                 checks_evaluated + r.evaluated + (IF r.err = "None" THEN 0 ELSE 1)
           /\ IF r.err # "None"
              THEN Halt(r.err) /\ UNCHANGED <<result, calls_made>>
              ELSE /\ result' = result + r.val
                   /\ calls_made' = calls_made + 1
                   /\ pc' = next
                   /\ UNCHANGED <<error, exit_status>>
    /\ UNCHANGED <<otherVars, inputVars, ioVars, spath, weekday_str, db_pass_details,
                   db_batch, csv_pass_data, jobs, opened, stdout_total>>

\* lines 151-154
CheckHourlyYesterday ==
    Check(jobs.hourly_jobs, "Yesterday", "line151", "line152")
CheckDailyYesterday ==
    Check(daily_checks(jobs.daily_jobs), "Yesterday", "line152", "line153")
CheckDayYesterday ==
    Check(day_checks(jobs.specific_day_jobs), "Yesterday", "line153", "line154")
CheckWeekYesterday ==
    Check(week_checks(jobs.specific_week_jobs, weekday_str), "Yesterday",
          "line154", "line164")

\* lines 181-184
CheckHourlyToday ==
    Check(jobs.hourly_jobs, "Today", "line181", "line182")
CheckDailyToday ==
    Check(daily_checks(jobs.daily_jobs), "Today", "line182", "line183")
CheckDayToday ==
    Check(day_checks(jobs.specific_day_jobs), "Today", "line183", "line184")
CheckWeekToday ==
    Check(week_checks(jobs.specific_week_jobs, weekday_str), "Today",
          "line184", "line187")

\* line 187
PrintTotal ==
    /\ pc = "line187"
    /\ stdout_total' = <<result>>
    /\ pc' = "line188"
    /\ UNCHANGED <<otherVars, inputVars, passVars, ioVars, spath, weekday_str, result,
                   error, exit_status, calls_made>>

\* lines 188-189: exit(1), or the return and the end of the script
exit_code(total) == IF total >= 1 THEN 1 ELSE 0

Exit ==
    /\ pc = "line188"
    /\ exit_status' = exit_code(result)
    /\ pc' = "exited"
    /\ UNCHANGED <<otherVars, inputVars, passVars, ioVars, spath, weekday_str, result,
                   stdout_total, error, calls_made>>

Next ==
    \/ Main \/ ComputeDates
    \/ FetchYesterday \/ LoadYesterday \/ CategorizeYesterday
    \/ CheckHourlyYesterday \/ CheckDailyYesterday
    \/ CheckDayYesterday \/ CheckWeekYesterday
    \/ FetchToday \/ LoadToday \/ CategorizeToday
    \/ CheckHourlyToday \/ CheckDailyToday \/ CheckDayToday \/ CheckWeekToday
    \/ PrintTotal \/ Exit

Spec == Init /\ [][Next]_vars


-----------------------------------------------------------------------------
(* The properties.                                                         *)

SomeParameterMissing ==
    \E p \in Params : env[p] = None \/ env[p] = <<>>

InfrastructureErrors ==
    {"OperationalError", "DatabaseError", "FileNotFoundError",
     "StopIteration", "IndexError"}

\* C1: every run started through __main__ with the credentials set, both
\* queries executed with success and no schedule file missing or
\* malformed makes the eight check_job_status calls of the two passes,
\* prints the total of their counts and exits with status 1 if the total
\* is >= 1 and 0 otherwise.
C1_RunReportsTotal ==
    (/\ pc = "exited"
     /\ entry = "__main__"
     /\ ~SomeParameterMissing
     /\ queries = 2
     /\ error \notin InfrastructureErrors)
    => /\ error = "None"
       /\ calls_made = 8
       /\ stdout_total = <<result>>
       /\ exit_status = (IF result >= 1 THEN 1 ELSE 0)

\* The count the claim C2 describes, stated on the lists themselves.
IntegerString(condition) == int(condition).err = "None"
AllInteger(job_details) ==
    \A k \in 1..Len(job_details) : IntegerString(job_details[k][2])
FailingRecords(check, db) ==
    {i \in 1..Len(db) :
        /\ db[i][1] = check[1]
        /\ \/ db[i][2] # COMPLETED
           \/ db[i][3] # int(check[2]).val}
FailuresOfCheck(check, db) ==
    IF \A i \in 1..Len(db) : db[i][1] # check[1] THEN 1
    ELSE Cardinality(FailingRecords(check, db))
ExpectedFailures(job_details, db) ==
    SumSeq([k \in 1..Len(job_details) |-> FailuresOfCheck(job_details[k], db)])

\* C2: for checks whose conditions are integer strings, check_job_status
\* returns the sum over the checks of 1 for a job without a record, and
\* otherwise of the number of the job's records that are not COMPLETED or
\* are COMPLETED with a count other than the condition.
C2_FailureCount ==
    (out_check # NotCalled /\ AllInteger(in_job_details))
    => /\ out_check.err = "None"
       /\ out_check.val = ExpectedFailures(in_job_details, in_db_details)

\* a job with a matching COMPLETED record and a FAILED record counts 1
C2_Witness ==
    /\ in_job_details = <<<<JobA, <<"1">>>>>>
    /\ in_db_details = <<<<JobA, COMPLETED, 1>>, <<JobA, FAILED, 1>>>>
    /\ out_check.err = "None"
    /\ out_check.val = 1

\* C3: check_job_status evaluates every check of every category and
\* returns a count; no check or record ends the call in an error.
C3_NeverAborts ==
    out_check # NotCalled
    => /\ out_check.err = "None"
       /\ out_check.evaluated = Len(in_job_details)

\* every daily job of the pass has records, all of them COMPLETED
DailyJobsCompleted ==
    /\ jobs.daily_jobs # <<>>
    /\ \A k \in 1..Len(jobs.daily_jobs) :
          /\ \E i \in 1..Len(db_pass_details) :
                db_pass_details[i][1] = jobs.daily_jobs[k]
          /\ \A i \in 1..Len(db_pass_details) :
                db_pass_details[i][1] = jobs.daily_jobs[k]
                => db_pass_details[i][2] = COMPLETED

\* C4: the daily call of a pass (line 152 / 182) adds nothing to the
\* failure count, and the run goes on, when every daily job has a
\* COMPLETED record, whatever its count.
C4_DailyIgnoresCondition ==
    [][(pc \in {"line152", "line182"} /\ DailyJobsCompleted)
       => (pc' \in {"line153", "line183"} /\ result' = result)]_vars

\* no specific-weekday check of the pass carries yesterday's label
NoWeekdayCheckMatches ==
    /\ jobs.specific_week_jobs # <<>>
    /\ \A k \in 1..Len(jobs.specific_week_jobs) :
          jobs.specific_week_jobs[k][2] # weekday_str

\* C5: the specific-weekday call of a pass (line 154 / 184) reconciles
\* only the checks whose value is yesterday's weekday label: when no check
\* carries the label, no check is evaluated and the count is unchanged.
C5_WeekdayMatched ==
    [][(pc \in {"line154", "line184"} /\ NoWeekdayCheckMatches)
       => /\ result' = result
          /\ checks_evaluated' = checks_evaluated
          /\ pc' # "exited"]_vars

\* C6: with one of the five parameters absent or empty the run ends in
\* the ValueError of get_db_connection, and until then no connection is
\* opened, no query executed, no file opened and no check evaluated.
C6_MissingCredentialsFatal ==
    SomeParameterMissing
    => /\ connections = 0 /\ queries = 0 /\ files_opened = 0
       /\ checks_evaluated = 0 /\ calls_made = 0
       /\ stdout_total = <<>>
       /\ pc \in {"line191", "line120", "line132", "exited"}
       /\ pc = "exited" => (error = "ValueError" /\ exit_status = 1)
       /\ pc # "exited" => ENABLED Next

C6_Witness ==
    /\ pc = "exited" /\ error = "ValueError" /\ exit_status = 1
    /\ env["DB_PORT"] = <<>>
    /\ \A p \in Params \ {"DB_PORT"} : env[p] = <<"x">>
    /\ connections = 0 /\ queries = 0

\* the run stopped before any check of the pass whose file was opened
AbortedBeforeChecks ==
    /\ pc \in {"line139", "line171", "exited"}
    /\ pc = "exited" => (exit_status # 0 /\ error \in InfrastructureErrors)
    /\ checks_evaluated = 0
    /\ last_call = NotCalled
    /\ stdout_total = <<>>

DataRows(file) == IF file.lines = <<>> THEN <<>> ELSE Tail(file.lines)

\* C7 as claimed: a missing file, or a data row of fewer than 8 columns
\* whatever its flags, aborts the run before any check of the pass.
C7_ShortRowFailsLoad ==
    (/\ opened # <<>>
     /\ \/ ~opened[1].exists
        \/ \E k \in 1..Len(DataRows(opened[1])) :
              Len(DataRows(opened[1])[k]) < 8)
    => AbortedBeforeChecks

\* C7 as the code has it: a missing file, a data row of fewer than 7
\* columns, or a row of 7 columns whose specific-weekday flag is YES,
\* aborts the run before any check of the pass and before any total.
C7_MissingCellFailsLoad ==
    (/\ opened # <<>>
     /\ \/ ~opened[1].exists
        \/ \E k \in 1..Len(DataRows(opened[1])) :
              \/ Len(DataRows(opened[1])[k]) < 7
              \/ /\ Len(DataRows(opened[1])[k]) = 7
                 /\ DataRows(opened[1])[k][7] = YES)
    => AbortedBeforeChecks

C7_Witness ==
    /\ pc = "exited" /\ error = "IndexError" /\ exit_status = 1
    /\ opened = <<[exists |-> TRUE, lines |-> <<Header, Row7Yes>>]>>
    /\ last_call = NotCalled

\* The expansion the claim C8 describes, stated without split.
Commas(values) == Cardinality({i \in 1..Len(values) : values[i] = ","})
RECURSIVE ChecksBefore(_, _)
ChecksBefore(stage_details, k) ==
    IF k = 1 THEN 0
    ELSE ChecksBefore(stage_details, k - 1) + Commas(stage_details[k - 1][2]) + 1
RECURSIVE JoinValues(_)
JoinValues(checks) ==
    IF Len(checks) = 1 THEN checks[1][2]
    ELSE checks[1][2] \o <<",">> \o JoinValues(Tail(checks))

\* C8: an entry whose values hold N - 1 commas yields exactly N checks,
\* all of its job, comma-free, in the order of the values (joined by
\* commas they give the cell back, repeated values included), the
\* entries' checks following each other in the order of the entries.
C8_Expansion ==
    out_stage.done
    => /\ Len(out_stage.val)
             = ChecksBefore(in_stage_details, Len(in_stage_details) + 1)
       /\ \A k \in 1..Len(in_stage_details) :
             LET from == ChecksBefore(in_stage_details, k)
                 n    == Commas(in_stage_details[k][2]) + 1
                 mine == SubSeq(out_stage.val, from + 1, from + n)
             IN  /\ Len(mine) = n
                 /\ \A i \in 1..n :
                       /\ mine[i][1] = in_stage_details[k][1]
                       /\ Commas(mine[i][2]) = 0
                 /\ JoinValues(mine) = in_stage_details[k][2]

\* "1,1" of job B then "1" of job A: three checks, the repeated one kept
C8_Witness ==
    /\ in_stage_details = <<<<JobB, <<"1", ",", "1">>>>, <<JobA, <<"1">>>>>>
    /\ out_stage.done
    /\ out_stage.val = <<<<JobB, <<"1">>>>, <<JobB, <<"1">>>>, <<JobA, <<"1">>>>>>

\* the number of rows of the store for (job, status) created in [lo, hi]
RowsWithin(job, status, lo, hi) ==
    Cardinality({i \in 1..Len(table) :
                    /\ table[i][1] = job /\ table[i][2] = status
                    /\ lo <= table[i][3] /\ table[i][3] <= hi})
\* the count a query result gives for (job, status), 0 if it has no record
CountIn(records, job, status) ==
    SumSeq([i \in 1..Len(records) |->
               IF records[i][1] = job /\ records[i][2] = status
               THEN records[i][3] ELSE 0])
OneRecordPerPair(records) ==
    \A i, j \in 1..Len(records) :
        (records[i][1] = records[j][1] /\ records[i][2] = records[j][2])
        => i = j

\* C9 as claimed: the today query counts exactly the rows created in
\* [current_date 00:00, current_date + 6 hours), the row created at
\* 06:00:00 left out (hours are whole here, so t < 6 is t <= 5).
C9_HalfOpenWindow ==
    out_today.done
    => \A job \in {JobA, JobB}, status \in Statuses :
          CountIn(out_today.val, job, status)
              = RowsWithin(job, status, 0, SixHours - 1)

\* C9 as the code has it: BETWEEN takes both ends, so the today query
\* counts exactly the rows created in [00:00, 06:00], one record a pair.
C9_ClosedWindow ==
    out_today.done
    => /\ OneRecordPerPair(out_today.val)
       /\ \A i \in 1..Len(out_today.val) : out_today.val[i][3] >= 1
       /\ \A job \in {JobA, JobB}, status \in Statuses :
             CountIn(out_today.val, job, status)
                 = RowsWithin(job, status, 0, SixHours)

C9_Witness ==
    /\ table = <<<<JobA, COMPLETED, SixHours>>, <<JobA, COMPLETED, SixHours + 1>>>>
    /\ out_today.done
    /\ out_today.val = <<<<JobA, COMPLETED, 1>>>>

\* C10: two lists of records that agree on the records of the scheduled
\* jobs give the same count; here the second list is the first without
\* the records of the jobs no check names, which every list agreeing
\* with the first on the scheduled jobs' records agrees with.
C10_UnscheduledIgnored ==
    (/\ out_check # NotCalled /\ out_other # NotCalled
     /\ AllInteger(in_job_details)
     /\ scheduled_records(in_job_details, in_db_other)
            = scheduled_records(in_job_details, in_db_details))
    => /\ out_check.err = out_other.err
       /\ out_check.val = out_other.val

\* a failed run of the unscheduled job Z beside a good run of job A
C10_Witness ==
    /\ in_job_details = <<<<JobA, <<"1">>>>>>
    /\ in_db_details = <<<<JobZ, FAILED, 2>>, <<JobA, COMPLETED, 1>>>>
    /\ in_db_other = <<<<JobA, COMPLETED, 1>>>>
    /\ out_check # NotCalled /\ out_other # NotCalled
    /\ out_check.val = 0 /\ out_other.val = 0

=============================================================================
